---- MODULE Spec2Model ----
(***************************************************************************)
(* Error reporting and command dispatch of src/cargo/lib.rs:               *)
(* call_main_without_stdin, exit_with_error, handle_error, handle_cause.   *)
(*                                                                         *)
(* An error is its cause chain: a non-empty sequence of records            *)
(* [kind, msg], head first, as ChainedError::iter() yields it.  The shell  *)
(* is the sequence of calls made on it, each with the stream it goes to,   *)
(* the method used, the text, and whether the write succeeded.             *)
(***************************************************************************)
EXTENDS Integers, Sequences, FiniteSets, TLC

VARIABLES verbosity, outClosed, errClosed, shellLog, mark, lastOp, handled,
          hcRet, pc, result, execCalls, execRet, decoded, exitStatus

vars == <<verbosity, outClosed, errClosed, shellLog, mark, lastOp, handled,
          hcRet, pc, result, execCalls, execRet, decoded, exitStatus>>

----------------------------------------------------------------------------
(* Bounds *)

\* longest error chain, head included
MaxChain == 3

----------------------------------------------------------------------------
(* Values *)

Verbose == "Verbose"
Verbosity == {"Verbose", "Normal", "Quiet"}

\* kinds of the errors in a chain; NotCargoError is a cause whose
\* downcast_ref::<CargoError>() is None (an io::Error, say)
Internal == "Internal"
HeadKinds == {"Internal", "Msg"}
CauseKinds == {"Internal", "Msg", "NotCargoError"}

\* the text of the error at position i of a chain
MsgAt(i) == "error " \o ToString(i)

\* Option<CargoError>::None
NoError == << >>

ChainsOfLen(n) ==
    { c \in [1..n -> [kind : CauseKinds, msg : {MsgAt(i) : i \in 1..n}]] :
        /\ c[1].kind \in HeadKinds
        /\ \A i \in 1..n : c[i].msg = MsgAt(i) }

Chains == UNION { ChainsOfLen(n) : n \in 1..MaxChain }

\* exit codes the commands use: success, usage errors, failures
ExitCodes == {0, 1, 101}

CliErrors == [error : Chains \cup {NoError}, exit_code : ExitCodes, unknown : BOOLEAN]

\* outcomes of docopt.decode(): the flags, or a docopt::Error
DocoptErrors == {"Argv", "Decode", "Help", "Version"}
DocoptFatal(e) == e \notin {"Help", "Version"}
DocoptText(e) == "docopt " \o e

----------------------------------------------------------------------------
(* The shell *)

GenericMsg == "An unknown error occurred"
HintMsg == "\nTo learn more, run the command again with --verbose."
CausedByMsg == "\nCaused by:"

\* shell.error(m): the error channel
ShellError(m) == [stream |-> "err", method |-> "error", fmt |-> "{}", text |-> m]
\* shell.say(m, BLACK): plain output
ShellSay(m) == [stream |-> "out", method |-> "say", fmt |-> "{}", text |-> m]
\* shell.err().say(m, BLACK)
ErrSay(f, m) == [stream |-> "err", method |-> "say", fmt |-> f, text |-> m]

\* handle_cause's inner fn print
print(error) == << ErrSay("{}", CausedByMsg), ErrSay("  {}", error) >>

IsInternal(err) == err.kind = Internal

\* the loops of handle_cause over cargo_err.iter().skip(1), from position i
RECURSIVE CauseLoop(_, _, _, _)
CauseLoop(cargo_err, i, verbose, calls) ==
    IF i > Len(cargo_err) THEN [calls |-> calls, ret |-> TRUE]
    ELSE IF verbose # Verbose /\ IsInternal(cargo_err[i])
         THEN [calls |-> calls, ret |-> FALSE]
         ELSE CauseLoop(cargo_err, i + 1, verbose, calls \o print(cargo_err[i].msg))

\* handle_cause applying the non-verbose rule in verbose mode too
handle_cause_AlwaysStops(cargo_err, verbose) ==
    CauseLoop(cargo_err, 2, "Normal", << >>)

\* handle_cause without the skip(1)
handle_cause_NoSkip(cargo_err, verbose) == CauseLoop(cargo_err, 1, verbose, << >>)

handle_cause(cargo_err, verbose) == CauseLoop(cargo_err, 2, verbose, << >>)

\* the result of each call: Err when the stream it writes to is closed
Stamp(calls) ==
    [ i \in 1..Len(calls) |->
        [ stream |-> calls[i].stream, method |-> calls[i].method,
          fmt |-> calls[i].fmt, text |-> calls[i].text,
          ok |-> IF calls[i].stream = "out" THEN ~outClosed ELSE ~errClosed ] ]

----------------------------------------------------------------------------
(* CliError constructors and results *)

CliErrorNew(error, code) ==
    [error |-> error, exit_code |-> code, unknown |-> IsInternal(error[1])]

NoCliError == [error |-> NoError, exit_code |-> 0, unknown |-> FALSE]

ResNone == [tag |-> "None", err |-> NoCliError]
ResOk == [tag |-> "Ok", err |-> NoCliError]
ResErr(e) == [tag |-> "Err", err |-> e]

ExecResults == {ResOk} \cup { ResErr(e) : e \in CliErrors }

\* the map_err closure giving every decode error exit code 1
DecodeMapErr_AlwaysFatal(e) ==
    CliErrorNew(<< [kind |-> "Msg", msg |-> DocoptText(e)] >>, 1)

\* the map_err closure of call_main_without_stdin
DecodeMapErr(e) ==
    LET code == IF DocoptFatal(e) THEN 1 ELSE 0
    IN  CliErrorNew(<< [kind |-> "Msg", msg |-> DocoptText(e)] >>, code)

----------------------------------------------------------------------------
Init ==
    /\ verbosity \in Verbosity
    /\ outClosed \in BOOLEAN
    /\ errClosed \in BOOLEAN
    /\ shellLog = << >>
    /\ mark = 0
    /\ lastOp = "none"
    /\ handled = NoError
    /\ hcRet = "none"
    /\ pc = "start"
    /\ result = ResNone
    /\ execCalls = 0
    /\ execRet = ResNone
    /\ decoded = "none"
    /\ exitStatus = -1

\* handle_error(err, shell)
HandleError(err) ==
    /\ pc = "start"
    /\ lastOp = "none"
    /\ LET hc == handle_cause(err, verbosity)
       IN  /\ shellLog' = shellLog \o Stamp(<< ShellError(err[1].msg) >> \o hc.calls)
           /\ hcRet' = IF hc.ret THEN "true" ELSE "false"
    /\ mark' = Len(shellLog)
    /\ lastOp' = "handle_error"
    /\ handled' = err
    /\ UNCHANGED <<verbosity, outClosed, errClosed, pc, result, execCalls,
                   execRet, decoded, exitStatus>>

\* call_main_without_stdin: Docopt::new(usage).unwrap() panics on a bad usage
CallMainPanic ==
    /\ pc = "start"
    /\ pc' = "panicked"
    /\ decoded' = "usage"
    /\ UNCHANGED <<verbosity, outClosed, errClosed, shellLog, mark, lastOp,
                   handled, hcRet, result, execCalls, execRet, exitStatus>>

\* call_main_without_stdin: decode fails, `?` returns the mapped error
CallMainDecodeErr(e) ==
    /\ pc = "start"
    /\ pc' = "returned"
    /\ decoded' = e
    /\ result' = ResErr(DecodeMapErr(e))
    /\ UNCHANGED <<verbosity, outClosed, errClosed, shellLog, mark, lastOp,
                   handled, hcRet, execCalls, execRet, exitStatus>>

\* call_main_without_stdin: decode succeeds, exec(flags, config) is the result
CallMainExec(r) ==
    /\ pc = "start"
    /\ pc' = "returned"
    /\ decoded' = "Flags"
    /\ execCalls' = execCalls + 1
    /\ execRet' = r
    /\ result' = r
    /\ UNCHANGED <<verbosity, outClosed, errClosed, shellLog, mark, lastOp,
                   handled, hcRet, exitStatus>>

\* the head message with the error's own text shown even when hidden
HeadCall_NeverHidden(err, verbose) ==
    IF err.exit_code # 0 THEN ShellError(err.error[1].msg)
    ELSE ShellSay(err.error[1].msg)

\* the head message with the fatal test taken before the hide test
HeadCall_FatalFirst(err, verbose) ==
    LET fatal == err.exit_code # 0
        hide == err.unknown /\ verbose # Verbose
    IN  IF fatal THEN ShellError(err.error[1].msg)
        ELSE IF hide THEN ShellError(GenericMsg)
        ELSE ShellSay(err.error[1].msg)

\* the head message of exit_with_error, error present
HeadCall(err, verbose) ==
    LET fatal == err.exit_code # 0
        hide == err.unknown /\ verbose # Verbose
    IN  IF hide THEN ShellError(GenericMsg)
        ELSE IF fatal THEN ShellError(err.error[1].msg)
        ELSE ShellSay(err.error[1].msg)

\* whether exit_with_error writes the hint, without the `|| hide`
WantsHint_NoHide(ret, hide) == ~ret

\* the test of exit_with_error's second if
WantsHint(ret, hide) == ~ret \/ hide

\* the shell calls of exit_with_error and handle_cause's result
ExitCalls(err, verbose) ==
    LET hide == err.unknown /\ verbose # Verbose
    IN  IF err.error = NoError THEN [calls |-> << >>, ret |-> "none"]
        ELSE LET hc == handle_cause(err.error, verbose)
                 hint == IF WantsHint(hc.ret, hide)
                         THEN << ErrSay("{}", HintMsg) >> ELSE << >>
             IN  [calls |-> << HeadCall(err, verbose) >> \o hc.calls \o hint,
                  ret |-> IF hc.ret THEN "true" ELSE "false"]

\* process::exit with 1 for every fatal error
ExitCode_OneIfFatal(err) == IF err.exit_code # 0 THEN 1 ELSE 0

\* std::process::exit(exit_code)
ExitCode(err) == err.exit_code

\* exit_with_error(err, shell)
ExitWithError ==
    /\ pc = "returned"
    /\ result.tag = "Err"
    /\ LET ec == ExitCalls(result.err, verbosity)
       IN  /\ shellLog' = shellLog \o Stamp(ec.calls)
           /\ hcRet' = ec.ret
    /\ mark' = Len(shellLog)
    /\ lastOp' = "exit_with_error"
    /\ exitStatus' = ExitCode(result.err)
    /\ pc' = "exited"
    /\ UNCHANGED <<verbosity, outClosed, errClosed, handled, result, execCalls,
                   execRet, decoded>>

Next ==
    \/ \E err \in Chains : HandleError(err)
    \/ CallMainPanic
    \/ \E e \in DocoptErrors : CallMainDecodeErr(e)
    \/ \E r \in ExecResults : CallMainExec(r)
    \/ ExitWithError

Spec == Init /\ [][Next]_vars

----------------------------------------------------------------------------
(* What the last reporting operation was given and what it wrote *)

OpOut == SubSeq(shellLog, mark + 1, Len(shellLog))
AfterExit == lastOp = "exit_with_error"
AfterHandle == lastOp = "handle_error"
OpChain == IF AfterHandle THEN handled ELSE result.err.error
Hide == result.err.unknown /\ verbosity # Verbose

IsCausedBy(c) == c.fmt = "{}" /\ c.text = CausedByMsg
IsCauseLine(c) == c.fmt = "  {}"
IsHint(c) == c.fmt = "{}" /\ c.text = HintMsg
IsHead(c) == c.fmt = "{}" /\ c.text # CausedByMsg /\ c.text # HintMsg

CauseLines == SelectSeq(OpOut, IsCauseLine)
Hints == SelectSeq(OpOut, IsHint)
Heads == SelectSeq(OpOut, IsHead)

\* the texts of the causes of a chain, in chain order
TailMsgs(chain) == [ i \in 1..(Len(chain) - 1) |-> chain[i + 1].msg ]
Texts(calls) == [ i \in 1..Len(calls) |-> calls[i].text ]

\* positions of the Internal causes of a chain
InternalCauses(chain) == { i \in 2..Len(chain) : IsInternal(chain[i]) }
\* how many causes non-verbose rendering shows: those before the first
\* Internal cause
ShownCauses(chain) ==
    IF InternalCauses(chain) = {} THEN Len(chain) - 1
    ELSE (CHOOSE i \in InternalCauses(chain) :
             \A j \in InternalCauses(chain) : i <= j) - 2

\* every cause line directly follows its own "Caused by:" header
CausesFramed ==
    \A i \in 1..Len(OpOut) :
        IsCauseLine(OpOut[i]) <=> (i > 1 /\ IsCausedBy(OpOut[i - 1]))

----------------------------------------------------------------------------
(* Claims *)

\* C1 (as stated): exit_with_error on a hidden error (unknown set, shell not
\* verbose) writes no "Caused by:" entry, whatever the causes are.
C1_HiddenErrorPrintsNoCause ==
    (AfterExit /\ OpChain # NoError /\ Hide) =>
        \A i \in 1..Len(OpOut) : ~IsCausedBy(OpOut[i]) /\ ~IsCauseLine(OpOut[i])

\* C2: exit_with_error on a hidden error never writes the error's own
\* message; it writes the generic message in its place and the --verbose
\* hint, for every exit code and every cause chain.
C2_HiddenHeadReplacedByGeneric ==
    (AfterExit /\ OpChain # NoError /\ Hide) =>
        /\ \A i \in 1..Len(OpOut) : OpOut[i].text # OpChain[1].msg
        /\ OpOut[1].text = GenericMsg /\ OpOut[1].method = "error"
        /\ Len(Heads) = 1
        /\ \E i \in 2..Len(OpOut) : IsHint(OpOut[i])

C2_Witness ==
    /\ AfterExit /\ OpChain # NoError /\ Hide
    /\ Len(OpChain) >= 2
    /\ result.err.exit_code = 0

\* C3: in verbose mode exit_with_error (error present) and handle_error write
\* the head's own message and then one "Caused by:" entry for every cause of
\* the chain, Internal ones and those after them included, and never the
\* generic message.
C3_VerboseShowsFullChain ==
    (verbosity = Verbose /\ (AfterExit \/ AfterHandle) /\ OpChain # NoError) =>
        /\ OpOut[1].text = OpChain[1].msg /\ OpOut[1].fmt = "{}"
        /\ Texts(CauseLines) = TailMsgs(OpChain)
        /\ CausesFramed
        /\ Len(OpOut) = 1 + 2 * (Len(OpChain) - 1)
        /\ \A i \in 1..Len(OpOut) : OpOut[i].text # GenericMsg

C3_Witness ==
    /\ verbosity = Verbose /\ AfterExit /\ result.err.unknown
    /\ Len(OpChain) = 3
    /\ IsInternal(OpChain[1]) /\ IsInternal(OpChain[2]) /\ ~IsInternal(OpChain[3])
    /\ handled # NoError

\* C4: exit_with_error always ends in process::exit with exactly the
\* CliError's exit_code, whatever was or was not written and whether or not
\* the writes failed; the status is non-zero exactly for a fatal error, and
\* nothing runs after it.
C4_ExitsWithExitCode ==
    /\ AfterExit =>
          /\ pc = "exited"
          /\ exitStatus = result.err.exit_code
          /\ exitStatus \in ExitCodes
    /\ pc = "exited" => AfterExit /\ ~(ENABLED Next)
    /\ pc # "exited" => exitStatus = -1

C4_Witness ==
    /\ pc = "exited" /\ exitStatus = 101
    /\ errClosed /\ Len(OpOut) >= 4
    /\ \A i \in 1..Len(OpOut) : ~OpOut[i].ok

\* C5: the causes handle_cause writes are a prefix, in chain order, of the
\* chain without its head: the whole of it in verbose mode, otherwise the
\* causes before the first Internal one; it returns false exactly when it
\* stopped at an Internal cause.
C5_CausesArePrefixOfTail ==
    (hcRet # "none") =>
        LET n == IF verbosity = Verbose THEN Len(OpChain) - 1
                 ELSE ShownCauses(OpChain)
        IN  /\ Texts(CauseLines) = SubSeq(TailMsgs(OpChain), 1, n)
            /\ CausesFramed
            /\ hcRet = "false" <=>
                  (verbosity # Verbose /\ InternalCauses(OpChain) # {})

C5_Witness ==
    /\ hcRet = "false" /\ verbosity # Verbose
    /\ Len(OpChain) = 3 /\ Len(CauseLines) = 1
    /\ IsInternal(OpChain[3])

\* C6 (as stated): in non-verbose mode neither exit_with_error nor
\* handle_error writes the message of an error of kind Internal, head or
\* cause, whatever the unknown flag is.
C6_NoInternalMessageNonVerbose ==
    (verbosity # Verbose /\ (AfterExit \/ AfterHandle) /\ OpChain # NoError) =>
        \A i \in 1..Len(OpOut) : \A j \in 1..Len(OpChain) :
            IsInternal(OpChain[j]) => OpOut[i].text # OpChain[j].msg

\* C7 (as stated): on exit_with_error and handle_error alike, when
\* non-verbose rendering leaves out causes because it reached an Internal
\* one, the --verbose hint is written afterwards.
C7_OmittedCausesGetHint ==
    (verbosity # Verbose /\ (AfterExit \/ AfterHandle) /\ OpChain # NoError
        /\ Len(CauseLines) < Len(OpChain) - 1) =>
        Len(Hints) >= 1 /\ IsHint(OpOut[Len(OpOut)])

\* C8: exit_with_error writes the --verbose hint at most once, after every
\* "Caused by:" entry, and exactly when the error is hidden or the cause
\* rendering stopped at an Internal cause; never in verbose mode and never
\* when the error is absent.
C8_HintExactlyWhenHiddenOrStopped ==
    AfterExit =>
        /\ Len(Hints) <= 1
        /\ \A i \in 1..Len(OpOut) : IsHint(OpOut[i]) => i = Len(OpOut)
        /\ OpChain # NoError =>
              (Len(Hints) = 1 <=> (Hide \/ hcRet = "false"))
        /\ verbosity = Verbose => Len(Hints) = 0
        /\ OpChain = NoError => Len(Hints) = 0

C8_Witness ==
    /\ AfterExit /\ ~result.err.unknown /\ verbosity # Verbose
    /\ hcRet = "false" /\ Len(CauseLines) = 1 /\ Len(Hints) = 1

\* C9: with an error present exit_with_error writes exactly one head message,
\* before any cause: the generic message as an error when hidden, else the
\* error's own message as an error when exit_code # 0, else the error's own
\* message as a plain say; with the error absent it writes nothing.
C9_HeadMessagePrecedence ==
    AfterExit =>
        IF OpChain = NoError THEN OpOut = << >>
        ELSE /\ Len(Heads) = 1
             /\ IsHead(OpOut[1])
             /\ IF Hide
                THEN OpOut[1].text = GenericMsg /\ OpOut[1].method = "error"
                     /\ OpOut[1].stream = "err"
                ELSE IF result.err.exit_code # 0
                THEN OpOut[1].text = OpChain[1].msg /\ OpOut[1].method = "error"
                     /\ OpOut[1].stream = "err"
                ELSE OpOut[1].text = OpChain[1].msg /\ OpOut[1].method = "say"
                     /\ OpOut[1].stream = "out"

C9_Witness ==
    /\ AfterExit /\ OpChain # NoError /\ ~Hide
    /\ result.err.unknown /\ result.err.exit_code = 0
    /\ OpOut[1].method = "say" /\ Len(OpOut) >= 3

\* C10: call_main_without_stdin calls exec at most once, only after the
\* arguments decoded, and returns its result unchanged; when decoding fails
\* exec is not called and the result is a CliError with the decode error's
\* text and exit code 1 if the decode error is fatal, 0 if not, which
\* exit_with_error then reports as a plain say with status 0.
C10_DecodeThenExec ==
    /\ execCalls <= 1
    /\ execCalls = 1 <=> decoded = "Flags"
    /\ decoded = "Flags" => result = execRet /\ pc \in {"returned", "exited"}
    /\ decoded \in DocoptErrors =>
          /\ execCalls = 0 /\ execRet = ResNone
          /\ result.tag = "Err"
          /\ Len(result.err.error) = 1
          /\ result.err.error[1].msg = DocoptText(decoded)
          /\ result.err.exit_code = (IF DocoptFatal(decoded) THEN 1 ELSE 0)
          /\ (pc = "exited" /\ ~DocoptFatal(decoded)) =>
                /\ exitStatus = 0
                /\ Texts(OpOut) = << DocoptText(decoded) >>
                /\ OpOut[1].method = "say"
    /\ decoded \in {"none", "usage"} => execCalls = 0 /\ result = ResNone

C10_Witness ==
    /\ pc = "exited" /\ decoded = "Help" /\ exitStatus = 0
    /\ verbosity # Verbose /\ Len(OpOut) = 1

====
